---- MODULE Spec2Model ----
(***************************************************************************)
(* LandSetHeightAction of OpenRCT2: the two-phase Query/Execute command    *)
(* that sets the height and slope of one map cell, over a packed array of  *)
(* tile elements.                                                          *)
(*                                                                         *)
(* The element array is modelled as the slice of gTileElements that holds  *)
(* the cell's stack: slot 1 is the array slot in front of the cell's first *)
(* element (another tile's element, or memory in front of the array), the  *)
(* cell's stack starts at slot 2 and ends at the first slot whose          *)
(* "last for tile" flag is set.                                            *)
(***************************************************************************)
EXTENDS Integers, Sequences, FiniteSets, TLC

VARIABLES
    mem,                            \* gTileElements around the cell
    litter,                         \* a litter sprite lies on the cell's surface
    gMapSizeMaxXY,                  \* largest in-map coordinate
    inPark,                         \* map_is_location_in_park(cell)
    gParkFlags,                     \* subset of the PARK_FLAGS_* below
    gScreenFlags,                   \* subset of {SCREEN_FLAGS_SCENARIO_EDITOR}
    gCheatsSandboxMode,
    gCheatsDisableClearanceChecks,
    gCheatsDisableSupportLimits,
    pending,                        \* the last Ok Query awaiting its Execute
    result                          \* what the last call returned

world == <<mem, litter>>
policy == <<gMapSizeMaxXY, inPark, gParkFlags, gScreenFlags, gCheatsSandboxMode,
            gCheatsDisableClearanceChecks, gCheatsDisableSupportLimits>>
vars == <<mem, litter, gMapSizeMaxXY, inPark, gParkFlags, gScreenFlags,
          gCheatsSandboxMode, gCheatsDisableClearanceChecks,
          gCheatsDisableSupportLimits, pending, result>>

(***************************************************************************)
(* Program constants                                                       *)
(***************************************************************************)
MINIMUM_LAND_HEIGHT == 2
MAXIMUM_LAND_HEIGHT == 142
COORDS_Z_STEP == 8
MAX_ELEMENT_HEIGHT == 255
MAXIMUM_MAP_SIZE_BIG == 8192
TILE_ELEMENT_SURFACE_DIAGONAL_FLAG == 16
TILE_ELEMENT_SURFACE_RAISED_CORNERS_MASK == 15
TILE_ELEMENT_SURFACE_SLOPE_MASK == 31

PARK_FLAGS_FORBID_LANDSCAPE_CHANGES == "FORBID_LANDSCAPE_CHANGES"
PARK_FLAGS_FORBID_TREE_REMOVAL == "FORBID_TREE_REMOVAL"
SCREEN_FLAGS_SCENARIO_EDITOR == "SCENARIO_EDITOR"

TILE_ELEMENT_TYPE_SURFACE == "surface"
TILE_ELEMENT_TYPE_PATH == "path"
TILE_ELEMENT_TYPE_TRACK == "track"
TILE_ELEMENT_TYPE_SMALL_SCENERY == "small_scenery"
TILE_ELEMENT_TYPE_WALL == "wall"

STR_NONE == "STR_NONE"
STR_FORBIDDEN_BY_THE_LOCAL_AUTHORITY == "STR_FORBIDDEN_BY_THE_LOCAL_AUTHORITY"
STR_OFF_EDGE_OF_MAP == "STR_OFF_EDGE_OF_MAP"
STR_TOO_LOW == "STR_TOO_LOW"
STR_TOO_HIGH == "STR_TOO_HIGH"
STR_LAND_NOT_OWNED_BY_PARK == "STR_LAND_NOT_OWNED_BY_PARK"
STR_SUPPORTS_CANT_BE_EXTENDED == "STR_SUPPORTS_CANT_BE_EXTENDED"
STR_REMOVE_LEVEL_CROSSING_FIRST == "STR_REMOVE_LEVEL_CROSSING_FIRST"
STR_CLEARANCE == "STR_CLEARANCE"

Ok == "Ok"
Disallowed == "Disallowed"
Unknown == "Unknown"

nullptr == 0

(***************************************************************************)
(* Bounds of the model                                                     *)
(***************************************************************************)
MaxStack == 2

(***************************************************************************)
(* Arithmetic helpers                                                      *)
(***************************************************************************)
abs(n) == IF n < 0 THEN 0 - n ELSE n

\* a & mask for a mask of the form 2^k - 1, given as mask + 1
BitAnd(a, mask) == a % (mask + 1)

\* a & flag # 0 for a single-bit flag
HasBit(a, flag) == (a \div flag) % 2 = 1

\* truncating division of C for a divisor > 0
CDiv(a, b) == IF a >= 0 THEN a \div b ELSE 0 - ((0 - a) \div b)

MONEY(whole, fraction) == whole * 10 + fraction \div 10

(***************************************************************************)
(* Tile elements                                                           *)
(***************************************************************************)
Element(type, base, clearance) ==
    [type |-> type, base_height |-> base, clearance_height |-> clearance,
     last |-> FALSE, ghost |-> FALSE,
     Slope |-> 0, WaterHeight |-> 0, trackThatNeedsWater |-> FALSE,
     isTree |-> FALSE, removal_price |-> 0,
     levelCrossing |-> FALSE, max_height |-> 0, typeMaxHeight |-> 0]

IsLastForTile(m, p) == m[p].last
GetBaseZ(e) == e.base_height * COORDS_Z_STEP
GetClearanceZ(e) == e.clearance_height * COORDS_Z_STEP

(***************************************************************************)
(* World-grid accessors                                                    *)
(***************************************************************************)
\* The one cell whose stack is modelled, cell (10,10)
Cell == [x |-> 320, y |-> 320]

LocationValid(coords) ==
    /\ coords.x < MAXIMUM_MAP_SIZE_BIG /\ coords.x >= 0
    /\ coords.y < MAXIMUM_MAP_SIZE_BIG /\ coords.y >= 0

\* Pointer to the first element of the cell's stack; commands address
\* either the modelled cell or an invalid location.
map_get_first_element_at(coords) ==
    IF LocationValid(coords) /\ coords = Cell THEN 2 ELSE nullptr

RECURSIVE FindSurfaceFrom(_, _)
FindSurfaceFrom(m, p) ==
    IF m[p].type = TILE_ELEMENT_TYPE_SURFACE THEN p
    ELSE IF IsLastForTile(m, p) THEN nullptr
    ELSE FindSurfaceFrom(m, p + 1)

map_get_surface_element_at(m, coords) ==
    LET first == map_get_first_element_at(coords)
    IN  IF first = nullptr THEN nullptr ELSE FindSurfaceFrom(m, first)

RECURSIVE FindPathFrom(_, _, _)
FindPathFrom(m, p, z) ==
    IF m[p].type = TILE_ELEMENT_TYPE_PATH /\ GetBaseZ(m[p]) = z THEN p
    ELSE IF IsLastForTile(m, p) THEN nullptr
    ELSE FindPathFrom(m, p + 1, z)

map_get_footpath_element(m, coords, z) ==
    LET first == map_get_first_element_at(coords)
    IN  IF first = nullptr THEN nullptr ELSE FindPathFrom(m, first, z)

IsLevelCrossing(e) == e.levelCrossing

RECURSIVE FindWallFrom(_, _, _, _)
FindWallFrom(m, p, baseZ, clearanceZ) ==
    IF /\ m[p].type = TILE_ELEMENT_TYPE_WALL
       /\ baseZ < GetClearanceZ(m[p])
       /\ clearanceZ > GetBaseZ(m[p])
    THEN p
    ELSE IF IsLastForTile(m, p) THEN nullptr
    ELSE FindWallFrom(m, p + 1, baseZ, clearanceZ)

map_get_wall_element_at(m, coords, baseZ, clearanceZ) ==
    LET first == map_get_first_element_at(coords)
    IN  IF first = nullptr THEN nullptr ELSE FindWallFrom(m, first, baseZ, clearanceZ)

\* do { *p = *(p + 1); } while (!(++p)->IsLastForTile());  yields <<memory, p>>
RECURSIVE ShiftDown(_, _)
ShiftDown(m, p) ==
    LET m1 == [m EXCEPT ![p] = m[p + 1]]
    IN  IF IsLastForTile(m1, p + 1) THEN <<m1, p + 1>> ELSE ShiftDown(m1, p + 1)

\* Detach the element at p: the elements above it move down one slot, the
\* slot in front of the vacated one becomes the last of the tile.  The
\* vacated slot q is free memory behind the tile and leaves the modelled
\* slice, unless it is the slot the tile pointer still points to.
tile_element_remove(m, p) ==
    LET r == IF ~IsLastForTile(m, p) THEN ShiftDown(m, p) ELSE <<m, p>>
        m1 == r[1]
        q == r[2]
        m2 == [m1 EXCEPT ![q - 1].last = TRUE, ![q].base_height = MAX_ELEMENT_HEIGHT]
    IN  IF q > 2 THEN SubSeq(m2, 1, q - 1) ELSE m2

RECURSIVE wall_remove_at(_, _, _, _)
wall_remove_at(m, coords, baseZ, clearanceZ) ==
    LET w == map_get_wall_element_at(m, coords, baseZ, clearanceZ)
    IN  IF w = nullptr THEN m
        ELSE wall_remove_at(tile_element_remove(m, w), coords, baseZ, clearanceZ)

map_get_corner_height(z, slope, direction) ==
    LET up == CASE direction = 0 -> 1 [] direction = 1 -> 2
                [] direction = 2 -> 4 [] OTHER -> 8
        double == CASE direction = 0 -> 27 [] direction = 1 -> 23
                    [] direction = 2 -> 30 [] OTHER -> 29
    IN  IF HasBit(slope, up)
        THEN z + 2 + (IF slope = double THEN 2 ELSE 0)
        ELSE z

tile_element_get_corner_height(surfaceElement, direction) ==
    map_get_corner_height(surfaceElement.base_height, surfaceElement.Slope, direction)


(***************************************************************************)
(* LandSetHeightAction: a command is [coords, height, style], height and   *)
(* style being uint8_t                                                     *)
(***************************************************************************)
Result(status, msg, obstruction, cost) ==
    [status |-> status, msg |-> msg, obstruction |-> obstruction, cost |-> cost]

\* CheckParameters without the rule for slopes near the maximum
CheckParametersNoSlopeRule(c) ==
    IF ~LocationValid(c.coords) THEN STR_OFF_EDGE_OF_MAP
    ELSE IF c.coords.x > gMapSizeMaxXY \/ c.coords.y > gMapSizeMaxXY THEN STR_OFF_EDGE_OF_MAP
    ELSE IF c.height < MINIMUM_LAND_HEIGHT THEN STR_TOO_LOW
    ELSE IF c.height > MAXIMUM_LAND_HEIGHT THEN STR_TOO_HIGH
    ELSE IF /\ c.height = MAXIMUM_LAND_HEIGHT - 2
            /\ HasBit(c.style, TILE_ELEMENT_SURFACE_DIAGONAL_FLAG)
         THEN STR_TOO_HIGH
    ELSE STR_NONE

\* CheckParameters without the test against the map size
CheckParametersNoMapSize(c) ==
    IF ~LocationValid(c.coords) THEN STR_OFF_EDGE_OF_MAP
    ELSE IF c.height < MINIMUM_LAND_HEIGHT THEN STR_TOO_LOW
    ELSE IF c.height > MAXIMUM_LAND_HEIGHT THEN STR_TOO_HIGH
    ELSE IF /\ c.height > MAXIMUM_LAND_HEIGHT - 2
            /\ BitAnd(c.style, TILE_ELEMENT_SURFACE_SLOPE_MASK) # 0
         THEN STR_TOO_HIGH
    ELSE IF /\ c.height = MAXIMUM_LAND_HEIGHT - 2
            /\ HasBit(c.style, TILE_ELEMENT_SURFACE_DIAGONAL_FLAG)
         THEN STR_TOO_HIGH
    ELSE STR_NONE

CheckParameters(c) ==
    IF ~LocationValid(c.coords) THEN STR_OFF_EDGE_OF_MAP
    ELSE IF c.coords.x > gMapSizeMaxXY \/ c.coords.y > gMapSizeMaxXY THEN STR_OFF_EDGE_OF_MAP
    ELSE IF c.height < MINIMUM_LAND_HEIGHT THEN STR_TOO_LOW
    ELSE IF c.height > MAXIMUM_LAND_HEIGHT THEN STR_TOO_HIGH
    ELSE IF /\ c.height > MAXIMUM_LAND_HEIGHT - 2
            /\ BitAnd(c.style, TILE_ELEMENT_SURFACE_SLOPE_MASK) # 0
         THEN STR_TOO_HIGH
    ELSE IF /\ c.height = MAXIMUM_LAND_HEIGHT - 2
            /\ HasBit(c.style, TILE_ELEMENT_SURFACE_DIAGONAL_FLAG)
         THEN STR_TOO_HIGH
    ELSE STR_NONE

\* The test the three small-scenery scans share
OverlapsTarget(e, height) ==
    /\ e.type = TILE_ELEMENT_TYPE_SMALL_SCENERY
    /\ ~(height > e.clearance_height)
    /\ ~(height + 4 < e.base_height)

\* The scan with a break where the code has its first continue
RECURSIVE CheckTreeObstructionsBreaking(_, _, _)
CheckTreeObstructionsBreaking(m, p, height) ==
    IF m[p].type # TILE_ELEMENT_TYPE_SMALL_SCENERY THEN nullptr
    ELSE IF OverlapsTarget(m[p], height) /\ m[p].isTree THEN p
    ELSE IF IsLastForTile(m, p) THEN nullptr
    ELSE CheckTreeObstructionsBreaking(m, p + 1, height)

RECURSIVE CheckTreeObstructionsFrom(_, _, _)
CheckTreeObstructionsFrom(m, p, height) ==
    IF OverlapsTarget(m[p], height) /\ m[p].isTree THEN p
    ELSE IF IsLastForTile(m, p) THEN nullptr
    ELSE CheckTreeObstructionsFrom(m, p + 1, height)

CheckTreeObstructions(m, c) ==
    LET first == map_get_first_element_at(c.coords)
    IN  IF first = nullptr THEN nullptr ELSE CheckTreeObstructionsFrom(m, first, c.height)

RECURSIVE GetSmallSceneryRemovalCostFrom(_, _, _)
GetSmallSceneryRemovalCostFrom(m, p, height) ==
    (IF OverlapsTarget(m[p], height) THEN MONEY(m[p].removal_price, 0) ELSE 0)
    + (IF IsLastForTile(m, p) THEN 0 ELSE GetSmallSceneryRemovalCostFrom(m, p + 1, height))

GetSmallSceneryRemovalCost(m, c) ==
    LET first == map_get_first_element_at(c.coords)
    IN  IF first = nullptr THEN 0 ELSE GetSmallSceneryRemovalCostFrom(m, first, c.height)

\* One pass of the do-while loop at p: tile_element_remove(tileElement--) on a
\* match, then the loop condition !(tileElement++)->IsLastForTile().
RECURSIVE SmallSceneryRemovalFrom(_, _, _)
SmallSceneryRemovalFrom(m, p, height) ==
    LET hit == OverlapsTarget(m[p], height)
        m1 == IF hit THEN tile_element_remove(m, p) ELSE m
        p1 == IF hit THEN p - 1 ELSE p
    IN  IF IsLastForTile(m1, p1) THEN m1 ELSE SmallSceneryRemovalFrom(m1, p1 + 1, height)

SmallSceneryRemoval(m, c) ==
    LET first == map_get_first_element_at(c.coords)
    IN  IF first = nullptr THEN m ELSE SmallSceneryRemovalFrom(m, first, c.height)

RideMaxHeight(e) == IF e.max_height = 0 THEN e.typeMaxHeight ELSE e.max_height

RECURSIVE CheckRideSupportsFrom(_, _, _)
CheckRideSupportsFrom(m, p, height) ==
    LET zDelta == m[p].clearance_height - height
    IN  IF /\ m[p].type = TILE_ELEMENT_TYPE_TRACK
           /\ zDelta >= 0
           /\ CDiv(zDelta, 2) > RideMaxHeight(m[p])
        THEN STR_SUPPORTS_CANT_BE_EXTENDED
        ELSE IF IsLastForTile(m, p) THEN STR_NONE
        ELSE CheckRideSupportsFrom(m, p + 1, height)

CheckRideSupports(m, c) ==
    LET first == map_get_first_element_at(c.coords)
    IN  IF first = nullptr THEN STR_NONE ELSE CheckRideSupportsFrom(m, first, c.height)

\* zCorner is uint8_t; waterHeight is uint32_t, so (waterHeight / 8) - 2 wraps
\* below 2 to a value above every uint8_t and the comparison is then false
CheckFloatingStructures(m, surfaceElement, c, zCorner0) ==
    LET waterHeight == m[surfaceElement].WaterHeight
        zCorner == IF BitAnd(c.style, TILE_ELEMENT_SURFACE_SLOPE_MASK) # 0
                   THEN (zCorner0 + 2
                         + (IF HasBit(c.style, TILE_ELEMENT_SURFACE_DIAGONAL_FLAG)
                            THEN 2 ELSE 0)) % 256
                   ELSE zCorner0
    IN  IF /\ m[surfaceElement].trackThatNeedsWater
           /\ waterHeight # 0
           /\ waterHeight \div COORDS_Z_STEP >= 2
           /\ zCorner > (waterHeight \div COORDS_Z_STEP) - 2
        THEN surfaceElement + 1
        ELSE nullptr

RECURSIVE CheckUnremovableObstructionsFrom(_, _, _, _, _)
CheckUnremovableObstructionsFrom(m, p, surfaceElement, zCorner, height) ==
    LET e == m[p]
        skip == \/ e.type = TILE_ELEMENT_TYPE_WALL
                \/ e.type = TILE_ELEMENT_TYPE_SMALL_SCENERY
                \/ e.ghost
                \/ p = surfaceElement
    IN  IF ~skip /\ p > surfaceElement /\ zCorner > e.base_height THEN p
        ELSE IF ~skip /\ p < surfaceElement /\ height < e.clearance_height THEN p
        ELSE IF IsLastForTile(m, p) THEN nullptr
        ELSE CheckUnremovableObstructionsFrom(m, p + 1, surfaceElement, zCorner, height)

CheckUnremovableObstructions(m, surfaceElement, zCorner, c) ==
    LET first == map_get_first_element_at(c.coords)
    IN  IF first = nullptr THEN nullptr
        ELSE CheckUnremovableObstructionsFrom(m, first, surfaceElement, zCorner, c.height)

RECURSIVE SumCorners(_, _, _)
SumCorners(surfaceElement, c, i) ==
    LET cornerHeight ==
            tile_element_get_corner_height(surfaceElement, i)
            - map_get_corner_height(c.height,
                                    BitAnd(c.style, TILE_ELEMENT_SURFACE_SLOPE_MASK), i)
    IN  MONEY((abs(cornerHeight) * 5) \div 2, 0)
        + (IF i = 3 THEN 0 ELSE SumCorners(surfaceElement, c, i + 1))

GetSurfaceHeightChangeCost(surfaceElement, c) == SumCorners(surfaceElement, c, 0)

SetSurfaceHeight(m, surfaceElement, c) ==
    LET waterHeight == m[surfaceElement].WaterHeight \div COORDS_Z_STEP
    IN  [m EXCEPT ![surfaceElement].base_height = c.height,
                  ![surfaceElement].clearance_height = c.height,
                  ![surfaceElement].Slope = c.style,
                  ![surfaceElement].WaterHeight =
                      IF waterHeight # 0 /\ waterHeight <= c.height THEN 0 ELSE @]

\* zCorner of Query's clearance block (uint8_t)
QueryZCorner(c) ==
    IF BitAnd(c.style, TILE_ELEMENT_SURFACE_RAISED_CORNERS_MASK) # 0
    THEN (c.height + 2
          + (IF HasBit(c.style, TILE_ELEMENT_SURFACE_DIAGONAL_FLAG) THEN 2 ELSE 0)) % 256
    ELSE c.height

\* The level-crossing test made at the command's height
LevelCrossingAtTarget(surfaceElement, c) ==
    LET pathElement == map_get_footpath_element(mem, c.coords, c.height * COORDS_Z_STEP)
    IN  pathElement # nullptr /\ IsLevelCrossing(mem[pathElement])

\* Is there _currently_ a level crossing on the tile: the path element at the
\* surface's old height, not at the command's height
LevelCrossingAt(surfaceElement, c) ==
    LET oldZ == GetBaseZ(mem[surfaceElement])
        pathElement == map_get_footpath_element(mem, c.coords, oldZ)
    IN  pathElement # nullptr /\ IsLevelCrossing(mem[pathElement])

\* What Query returns for command c; clearOk is the verdict of the
\* construction-clearance collaborator MapCanConstructWithClearAt.
QueryResult(c, clearOk) ==
    LET errorTitle == CheckParameters(c)
        tree == CheckTreeObstructions(mem, c)
        sceneryRemovalCost ==
            IF ~gCheatsDisableClearanceChecks THEN GetSmallSceneryRemovalCost(mem, c) ELSE 0
        supports == CheckRideSupports(mem, c)
        surfaceElement == map_get_surface_element_at(mem, c.coords)
        floating == CheckFloatingStructures(mem, surfaceElement, c, c.height)
        zCorner == QueryZCorner(c)
        unremovable == CheckUnremovableObstructions(mem, surfaceElement, zCorner, c)
    IN  IF PARK_FLAGS_FORBID_LANDSCAPE_CHANGES \in gParkFlags
        THEN Result(Disallowed, STR_FORBIDDEN_BY_THE_LOCAL_AUTHORITY, nullptr, 0)
        ELSE IF errorTitle # STR_NONE
        THEN Result(Disallowed, errorTitle, nullptr, 0)
        ELSE IF /\ SCREEN_FLAGS_SCENARIO_EDITOR \notin gScreenFlags
                /\ ~gCheatsSandboxMode
                /\ ~inPark
        THEN Result(Disallowed, STR_LAND_NOT_OWNED_BY_PARK, nullptr, 0)
        ELSE IF /\ ~gCheatsDisableClearanceChecks
                /\ PARK_FLAGS_FORBID_TREE_REMOVAL \in gParkFlags
                /\ tree # nullptr
        THEN Result(Disallowed, STR_NONE, tree, 0)
        ELSE IF ~gCheatsDisableSupportLimits /\ supports # STR_NONE
        THEN Result(Disallowed, supports, nullptr, 0)
        ELSE IF surfaceElement = nullptr
        THEN Result(Unknown, STR_NONE, nullptr, 0)
        ELSE IF LevelCrossingAt(surfaceElement, c)
        THEN Result(Disallowed, STR_REMOVE_LEVEL_CROSSING_FIRST, nullptr, 0)
        ELSE IF floating # nullptr
        THEN Result(Disallowed, STR_NONE, floating, 0)
        ELSE IF ~gCheatsDisableClearanceChecks /\ ~clearOk
        THEN Result(Disallowed, STR_CLEARANCE, nullptr, 0)
        ELSE IF ~gCheatsDisableClearanceChecks /\ unremovable # nullptr
        THEN Result(Disallowed, STR_NONE, unremovable, 0)
        ELSE Result(Ok, STR_NONE, nullptr,
                    sceneryRemovalCost + GetSurfaceHeightChangeCost(mem[surfaceElement], c))

\* Execute pricing the scenery after it removed it
ExecuteOutcomeCostAfterRemoval(c) ==
    LET m1 == IF ~gCheatsDisableClearanceChecks
              THEN wall_remove_at(mem, c.coords, c.height * 8 - 16, c.height * 8 + 32)
              ELSE mem
        m2 == IF ~gCheatsDisableClearanceChecks THEN SmallSceneryRemoval(m1, c) ELSE m1
        cost1 == IF ~gCheatsDisableClearanceChecks THEN GetSmallSceneryRemovalCost(m2, c) ELSE 0
        surfaceElement == map_get_surface_element_at(m2, c.coords)
    IN  IF surfaceElement = nullptr
        THEN [mem |-> m2, res |-> Result(Unknown, STR_NONE, nullptr, 0)]
        ELSE [mem |-> SetSurfaceHeight(m2, surfaceElement, c),
              res |-> Result(Ok, STR_NONE, nullptr,
                             cost1 + GetSurfaceHeightChangeCost(m2[surfaceElement], c))]

\* Execute running Query's rejection chain first
ExecuteOutcomeRevalidating(c) ==
    LET q == QueryResult(c, TRUE)
        m1 == IF ~gCheatsDisableClearanceChecks
              THEN wall_remove_at(mem, c.coords, c.height * 8 - 16, c.height * 8 + 32)
              ELSE mem
        cost1 == IF ~gCheatsDisableClearanceChecks THEN GetSmallSceneryRemovalCost(m1, c) ELSE 0
        m2 == IF ~gCheatsDisableClearanceChecks THEN SmallSceneryRemoval(m1, c) ELSE m1
        surfaceElement == map_get_surface_element_at(m2, c.coords)
    IN  IF q.status # Ok
        THEN [mem |-> mem, res |-> q]
        ELSE IF surfaceElement = nullptr
        THEN [mem |-> m2, res |-> Result(Unknown, STR_NONE, nullptr, 0)]
        ELSE [mem |-> SetSurfaceHeight(m2, surfaceElement, c),
              res |-> Result(Ok, STR_NONE, nullptr,
                             cost1 + GetSurfaceHeightChangeCost(m2[surfaceElement], c))]

\* What Execute returns and the element memory it leaves
ExecuteOutcome(c) ==
    LET m1 == IF ~gCheatsDisableClearanceChecks
              THEN wall_remove_at(mem, c.coords, c.height * 8 - 16, c.height * 8 + 32)
              ELSE mem
        cost1 == IF ~gCheatsDisableClearanceChecks THEN GetSmallSceneryRemovalCost(m1, c) ELSE 0
        m2 == IF ~gCheatsDisableClearanceChecks THEN SmallSceneryRemoval(m1, c) ELSE m1
        surfaceElement == map_get_surface_element_at(m2, c.coords)
    IN  IF surfaceElement = nullptr
        THEN [mem |-> m2, res |-> Result(Unknown, STR_NONE, nullptr, 0)]
        ELSE [mem |-> SetSurfaceHeight(m2, surfaceElement, c),
              res |-> Result(Ok, STR_NONE, nullptr,
                             cost1 + GetSurfaceHeightChangeCost(m2[surfaceElement], c))]

(***************************************************************************)
(* Inputs of the model                                                     *)
(***************************************************************************)
Surface == Element(TILE_ELEMENT_TYPE_SURFACE, 2, 2)
WaterSurface == [Surface EXCEPT !.WaterHeight = 48, !.trackThatNeedsWater = TRUE]
Bush == [Element(TILE_ELEMENT_TYPE_SMALL_SCENERY, 2, 4) EXCEPT !.removal_price = 3]
Tree == [Element(TILE_ELEMENT_TYPE_SMALL_SCENERY, 2, 8) EXCEPT
             !.removal_price = 5, !.isTree = TRUE]
Wall == Element(TILE_ELEMENT_TYPE_WALL, 2, 4)
Path == [Element(TILE_ELEMENT_TYPE_PATH, 2, 6) EXCEPT !.levelCrossing = TRUE]
Track == [Element(TILE_ELEMENT_TYPE_TRACK, 6, 8) EXCEPT !.typeMaxHeight = 1]

Catalogue == {Surface, WaterSurface, Bush, Tree, Wall, Path, Track}

\* The slot in front of the cell's stack holds the last element of the stack
\* stored before it
PrecedingSlot == [Element(TILE_ELEMENT_TYPE_SURFACE, 2, 2) EXCEPT !.last = TRUE]

\* A cell holds at most one surface element
Stacks ==
    LET all == UNION {[1 .. n -> Catalogue] : n \in 1 .. MaxStack}
    IN  {s \in all :
            Cardinality({i \in DOMAIN s : s[i].type = TILE_ELEMENT_TYPE_SURFACE}) <= 1}

\* The memory holding stack s: the preceding slot, then s with its last
\* element flagged
Memory(s) ==
    <<PrecedingSlot>> \o [i \in DOMAIN s |-> [s[i] EXCEPT !.last = (i = Len(s))]]

Command(coords, height, style) == [coords |-> coords, height |-> height, style |-> style]

Commands ==
    {Command(Cell, 3, 0), Command(Cell, 4, 0), Command(Cell, 4, 1), Command(Cell, 6, 0)}

\* Commands at and beyond the limits of CheckParameters
QueryCommands ==
    Commands \cup {Command(Cell, 1, 0), Command(Cell, 141, 1), Command(Cell, 143, 0)}

ParamCoords ==
    {Cell, [x |-> 0 - 32, y |-> 320], [x |-> 320, y |-> MAXIMUM_MAP_SIZE_BIG],
     [x |-> MAXIMUM_MAP_SIZE_BIG + 32, y |-> 0 - 32]}
ParamHeights == {0, 1, 2, 3, 139, 140, 141, 142, 143, 255}
ParamStyles == {0, 1, 15, 16, 27, 32, 48}
ParamCommands == [coords : ParamCoords, height : ParamHeights, style : ParamStyles]

NoCommand == Command([x |-> 0, y |-> 0], 0, 0)
NoResult == [op |-> "none", c |-> NoCommand, status |-> Ok, msg |-> STR_NONE,
             obstruction |-> nullptr, cost |-> 0, validated |-> FALSE, stale |-> FALSE]

\* The value a call returns, with what the caller knew when it made the call:
\* validated says that the last Query accepted this same command, stale that
\* it did and that Query would reject the command by now.
Returned(op, c, r, validated, stale) ==
    [op |-> op, c |-> c, status |-> r.status, msg |-> r.msg,
     obstruction |-> r.obstruction, cost |-> r.cost,
     validated |-> validated, stale |-> stale]

(***************************************************************************)
(* Actions                                                                 *)
(***************************************************************************)
Init ==
    /\ mem \in {Memory(s) : s \in Stacks}
    /\ litter = TRUE
    /\ gMapSizeMaxXY = 4063
    /\ inPark = TRUE
    /\ gParkFlags = {}
    /\ gScreenFlags = {}
    /\ gCheatsSandboxMode = FALSE
    /\ gCheatsDisableClearanceChecks = FALSE
    /\ gCheatsDisableSupportLimits = FALSE
    /\ pending = NoCommand
    /\ result = NoResult

\* The host runs one call at a time and takes a call's result before it makes
\* the next call or changes anything.
Idle == result = NoResult

\* A Query with Execute's removal pass in it
QueryRemoving(c, clearOk) ==
    /\ Idle
    /\ result' = Returned("Query", c, QueryResult(c, clearOk), FALSE, FALSE)
    /\ pending' = IF result'.status = Ok THEN c ELSE NoCommand
    /\ mem' = SmallSceneryRemoval(mem, c)
    /\ UNCHANGED <<litter, policy>>

Query(c, clearOk) ==
    /\ Idle
    /\ result' = Returned("Query", c, QueryResult(c, clearOk), FALSE, FALSE)
    /\ pending' = IF result'.status = Ok THEN c ELSE NoCommand
    /\ UNCHANGED <<world, policy>>

Execute(c) ==
    LET out == ExecuteOutcome(c)
        validated == pending = c
        stale == /\ validated
                 /\ \A clearOk \in BOOLEAN : QueryResult(c, clearOk).status # Ok
    IN  /\ Idle
        /\ mem' = out.mem
        /\ litter' = IF map_get_first_element_at(c.coords) # nullptr THEN FALSE ELSE litter
        /\ result' = Returned("Execute", c, out.res, validated, stale)
        /\ pending' = NoCommand
        /\ UNCHANGED policy

TakeResult ==
    /\ ~Idle
    /\ result' = NoResult
    /\ UNCHANGED <<world, policy, pending>>

\* The host changes a policy or cheat flag between two calls
SetParkFlag(f) ==
    /\ Idle
    /\ gParkFlags' = IF f \in gParkFlags THEN gParkFlags \ {f} ELSE gParkFlags \cup {f}
    /\ UNCHANGED <<world, pending, result, gMapSizeMaxXY, inPark, gScreenFlags,
                   gCheatsSandboxMode, gCheatsDisableClearanceChecks,
                   gCheatsDisableSupportLimits>>

SetOwnership ==
    /\ Idle
    /\ inPark' = ~inPark
    /\ UNCHANGED <<world, pending, result, gMapSizeMaxXY, gParkFlags, gScreenFlags,
                   gCheatsSandboxMode, gCheatsDisableClearanceChecks,
                   gCheatsDisableSupportLimits>>

SetCheatDisableClearanceChecks ==
    /\ Idle
    /\ gCheatsDisableClearanceChecks' = ~gCheatsDisableClearanceChecks
    /\ UNCHANGED <<world, pending, result, gMapSizeMaxXY, inPark, gParkFlags, gScreenFlags,
                   gCheatsSandboxMode, gCheatsDisableSupportLimits>>

\* A level crossing opens or closes on the path element at p
SetLevelCrossing(p) ==
    /\ Idle
    /\ p \in 2 .. Len(mem)
    /\ mem[p].type = TILE_ELEMENT_TYPE_PATH
    /\ mem[p].base_height # MAX_ELEMENT_HEIGHT
    /\ mem' = [mem EXCEPT ![p].levelCrossing = ~@]
    /\ UNCHANGED <<litter, policy, pending, result>>

Next ==
    \/ \E c \in Commands, clearOk \in BOOLEAN : Query(c, clearOk)
    \/ \E c \in Commands : Execute(c)
    \/ TakeResult
    \/ \E f \in {PARK_FLAGS_FORBID_LANDSCAPE_CHANGES, PARK_FLAGS_FORBID_TREE_REMOVAL} :
          SetParkFlag(f)
    \/ SetOwnership
    \/ SetCheatDisableClearanceChecks
    \/ \E p \in 2 .. (MaxStack + 1) : SetLevelCrossing(p)

Spec == Init /\ [][Next]_vars

(***************************************************************************)
(* Query under every policy: every setting of the park flags, the screen   *)
(* flags, the cheats and the ownership of the cell                         *)
(***************************************************************************)
InitQuery ==
    /\ mem \in {Memory(s) : s \in Stacks}
    /\ litter = TRUE
    /\ gMapSizeMaxXY = 4063
    /\ inPark \in BOOLEAN
    /\ gParkFlags \in SUBSET {PARK_FLAGS_FORBID_LANDSCAPE_CHANGES,
                              PARK_FLAGS_FORBID_TREE_REMOVAL}
    /\ gScreenFlags \in SUBSET {SCREEN_FLAGS_SCENARIO_EDITOR}
    /\ gCheatsSandboxMode \in BOOLEAN
    /\ gCheatsDisableClearanceChecks \in BOOLEAN
    /\ gCheatsDisableSupportLimits \in BOOLEAN
    /\ pending = NoCommand
    /\ result = NoResult

NextQuery ==
    \/ \E c \in QueryCommands, clearOk \in BOOLEAN : Query(c, clearOk)
    \/ TakeResult
    \/ \E p \in 2 .. (MaxStack + 1) : SetLevelCrossing(p)

SpecQuery == InitQuery /\ [][NextQuery]_vars

(***************************************************************************)
(* Query over the range of the parameters: cells on and off the map,       *)
(* heights around both limits, styles with and without slope bits          *)
(***************************************************************************)
InitParams ==
    /\ mem = Memory(<<Surface>>)
    /\ litter = TRUE
    /\ gMapSizeMaxXY \in {4063, 287}
    /\ inPark \in BOOLEAN
    /\ gParkFlags \in SUBSET {PARK_FLAGS_FORBID_LANDSCAPE_CHANGES,
                              PARK_FLAGS_FORBID_TREE_REMOVAL}
    /\ gScreenFlags \in SUBSET {SCREEN_FLAGS_SCENARIO_EDITOR}
    /\ gCheatsSandboxMode \in BOOLEAN
    /\ gCheatsDisableClearanceChecks \in BOOLEAN
    /\ gCheatsDisableSupportLimits \in BOOLEAN
    /\ pending = NoCommand
    /\ result = NoResult

NextParams ==
    \/ \E c \in ParamCommands, clearOk \in BOOLEAN : Query(c, clearOk)
    \/ TakeResult

SpecParams == InitParams /\ [][NextParams]_vars

(***************************************************************************)
(* Properties                                                              *)
(***************************************************************************)
\* The slots of the cell's stack that hold an element
Live(m) == {p \in 2 .. Len(m) : m[p].base_height # MAX_ELEMENT_HEIGHT}

Qualifying(m, height) == {p \in Live(m) : OverlapsTarget(m[p], height)}

RECURSIVE SumPrices(_, _)
SumPrices(m, ps) ==
    IF ps = {} THEN 0
    ELSE LET p == CHOOSE x \in ps : TRUE
         IN  MONEY(m[p].removal_price, 0) + SumPrices(m, ps \ {p})

InBounds(c) ==
    /\ LocationValid(c.coords)
    /\ c.coords.x <= gMapSizeMaxXY
    /\ c.coords.y <= gMapSizeMaxXY

SlopeBits(c) == BitAnd(c.style, TILE_ELEMENT_SURFACE_SLOPE_MASK)

ForbidLandscape == PARK_FLAGS_FORBID_LANDSCAPE_CHANGES \in gParkFlags
ForbidTrees == PARK_FLAGS_FORBID_TREE_REMOVAL \in gParkFlags

\* C1: a step that is a call of Query, whatever it returns, leaves the element
\* memory and the litter of the cell as they were.
C1_QueryNeverMutates ==
    [][(Idle /\ result'.op = "Query") => (mem' = mem /\ litter' = litter)]_vars

\* Query returned Ok for a command whose target range holds small scenery
C1_Witness ==
    /\ result.op = "Query"
    /\ result.status = Ok
    /\ Qualifying(mem, result.c.height) # {}

\* C2: in every state, under every setting of the cheats, a command that
\* Query accepts with cost k is one that Execute, run on that same state,
\* accepts with cost k, the sum of the removal prices of the overlapping small
\* scenery (when the clearance checks are enabled) and the height-change cost.
C2_QueryExecuteAgree ==
    Idle =>
         \A c \in Commands, clearOk \in BOOLEAN :
             LET q == QueryResult(c, clearOk)
                 e == ExecuteOutcome(c).res
                 surfaceElement == map_get_surface_element_at(mem, c.coords)
             IN  q.status = Ok =>
                     /\ e.status = Ok
                     /\ e.cost = q.cost
                     /\ e.cost = (IF gCheatsDisableClearanceChecks THEN 0
                                  ELSE SumPrices(mem, Qualifying(mem, c.height)))
                                 + GetSurfaceHeightChangeCost(mem[surfaceElement], c)

\* Execute of a command Query had accepted charged the removal of a bush and
\* the raise of a flat surface by two units
C2_Witness ==
    /\ result.op = "Execute"
    /\ result.validated
    /\ ~result.stale
    /\ result.status = Ok
    /\ result.cost = MONEY(3, 0) + 4 * MONEY(5, 0)

\* C3: an Execute with the clearance checks enabled removes exactly the small
\* scenery that overlaps the target range: none of it is left in the stack, no
\* other small scenery and no element other than walls is gone, and an Ok
\* result charges the sum of the removal prices on top of the height change.
C3_RemovalComplete ==
    [][(Idle /\ result'.op = "Execute" /\ ~gCheatsDisableClearanceChecks) =>
          LET c == result'.c
              gone == Qualifying(mem, c.height)
              scenery(m) == {p \in Live(m) : m[p].type = TILE_ELEMENT_TYPE_SMALL_SCENERY}
              others(m) == {p \in Live(m) :
                               m[p].type \notin {TILE_ELEMENT_TYPE_SMALL_SCENERY,
                                                 TILE_ELEMENT_TYPE_WALL}}
              surfaceElement == map_get_surface_element_at(mem, c.coords)
          IN  /\ Qualifying(mem', c.height) = {}
              /\ Cardinality(scenery(mem')) = Cardinality(scenery(mem)) - Cardinality(gone)
              /\ Cardinality(others(mem')) = Cardinality(others(mem))
              /\ result'.status = Ok =>
                    result'.cost = SumPrices(mem, gone)
                                   + GetSurfaceHeightChangeCost(mem[surfaceElement], c)
      ]_vars

\* C4 as claimed: for an in-bounds cell a height below the minimum is rejected
\* with TooLow, a height above the maximum with TooHigh, and a height from
\* maximum - 2 to the maximum with TooHigh whenever a slope bit is set.
C4_AsClaimed ==
    (result.op = "Query" /\ InBounds(result.c)) =>
        LET c == result.c
            low == c.height < MINIMUM_LAND_HEIGHT
            high == c.height > MAXIMUM_LAND_HEIGHT
            sloped == /\ c.height >= MAXIMUM_LAND_HEIGHT - 2
                      /\ c.height <= MAXIMUM_LAND_HEIGHT
                      /\ SlopeBits(c) # 0
        IN  /\ low => CheckParameters(c) = STR_TOO_LOW
            /\ high => CheckParameters(c) = STR_TOO_HIGH
            /\ sloped => CheckParameters(c) = STR_TOO_HIGH
            /\ (low \/ high \/ sloped) => result.status = Disallowed

\* C4: for an in-bounds cell CheckParameters answers TooLow below the minimum,
\* TooHigh above the maximum, TooHigh for maximum - 2 < height <= maximum with
\* a slope bit set and TooHigh for height = maximum - 2 with the diagonal flag
\* set; Query then returns Disallowed, with that reason unless landscape
\* changes are forbidden.
C4_HeightBounds ==
    (result.op = "Query" /\ InBounds(result.c)) =>
        LET c == result.c
            low == c.height < MINIMUM_LAND_HEIGHT
            high == c.height > MAXIMUM_LAND_HEIGHT
            sloped == /\ c.height > MAXIMUM_LAND_HEIGHT - 2
                      /\ c.height <= MAXIMUM_LAND_HEIGHT
                      /\ SlopeBits(c) # 0
            diagonal == /\ c.height = MAXIMUM_LAND_HEIGHT - 2
                        /\ HasBit(c.style, TILE_ELEMENT_SURFACE_DIAGONAL_FLAG)
        IN  /\ low => CheckParameters(c) = STR_TOO_LOW
            /\ (high \/ sloped \/ diagonal) => CheckParameters(c) = STR_TOO_HIGH
            /\ (low \/ high \/ sloped \/ diagonal) =>
                   /\ result.status = Disallowed
                   /\ ~ForbidLandscape => result.msg = CheckParameters(c)

\* Query rejected a sloped style one unit below the maximum as too high
C4_Witness ==
    /\ result.op = "Query"
    /\ InBounds(result.c)
    /\ result.c.height = MAXIMUM_LAND_HEIGHT - 1
    /\ SlopeBits(result.c) # 0
    /\ result.status = Disallowed
    /\ result.msg = STR_TOO_HIGH

\* C5 as claimed: for a cell outside the world bounds Query returns the
\* off-map failure under every policy.
C5_AsClaimed ==
    (result.op = "Query" /\ ~InBounds(result.c)) =>
        (result.status = Disallowed /\ result.msg = STR_OFF_EDGE_OF_MAP)

\* C5: for a cell outside the world bounds Query returns Disallowed, never Ok:
\* with the off-map reason, or with the local-authority reason when landscape
\* changes are forbidden.
C5_OffMapRejected ==
    (result.op = "Query" /\ ~InBounds(result.c)) =>
        /\ result.status = Disallowed
        /\ result.msg = IF ForbidLandscape THEN STR_FORBIDDEN_BY_THE_LOCAL_AUTHORITY
                        ELSE STR_OFF_EDGE_OF_MAP

\* Query rejected as off the map a cell that is a valid location beyond the
\* map size
C5_Witness ==
    /\ result.op = "Query"
    /\ LocationValid(result.c.coords)
    /\ result.c.coords.x > gMapSizeMaxXY
    /\ result.status = Disallowed
    /\ result.msg = STR_OFF_EDGE_OF_MAP

\* The corner-height difference the height change is priced by
SumAbsCornerDelta(surfaceElement, c) ==
    LET d(i) == abs(tile_element_get_corner_height(surfaceElement, i)
                    - map_get_corner_height(c.height, SlopeBits(c), i))
    IN  d(0) + d(1) + d(2) + d(3)

\* C6: on a cell without small scenery there is one per-unit rate by which
\* the cost of every accepted command is the rate times the sum over the four
\* corners of the absolute height difference.
C6_CostProportional ==
    \E rate \in 0 .. MONEY(5, 0) :
        \A c \in Commands :
            LET q == QueryResult(c, TRUE)
                surfaceElement == map_get_surface_element_at(mem, c.coords)
            IN  (q.status = Ok /\ Qualifying(mem, c.height) = {}) =>
                    q.cost = rate * SumAbsCornerDelta(mem[surfaceElement], c)

\* A tree of the cell's stack overlaps the target range of command c
TreeOverlaps(c) ==
    \E p \in Qualifying(mem, c.height) : mem[p].isTree

\* C7 as claimed: with tree removal forbidden and a tree overlapping the
\* target range Query returns Disallowed under every cheat setting.
C7_AsClaimed ==
    (result.op = "Query" /\ ForbidTrees /\ TreeOverlaps(result.c)) =>
        result.status = Disallowed

\* C7: with tree removal forbidden, the clearance checks not disabled by the
\* cheat and a tree overlapping the target range, Query returns Disallowed.
C7_TreeProtection ==
    (/\ result.op = "Query"
     /\ ForbidTrees
     /\ ~gCheatsDisableClearanceChecks
     /\ TreeOverlaps(result.c)) =>
        result.status = Disallowed

\* Query named a tree as the obstruction
C7_Witness ==
    /\ result.op = "Query"
    /\ ForbidTrees
    /\ result.status = Disallowed
    /\ result.obstruction \in 2 .. Len(mem)
    /\ mem[result.obstruction].type = TILE_ELEMENT_TYPE_SMALL_SCENERY
    /\ mem[result.obstruction].isTree

\* The paths of the stack at the base height of the cell's surface
PathsOnSurface ==
    LET surfaceElement == map_get_surface_element_at(mem, Cell)
    IN  IF surfaceElement = nullptr THEN {}
        ELSE {p \in 2 .. Len(mem) :
                 /\ mem[p].type = TILE_ELEMENT_TYPE_PATH
                 /\ mem[p].base_height = mem[surfaceElement].base_height}

\* C8 as claimed: with a level crossing on a path at the surface's base height
\* Query rejects with the level-crossing reason, whatever the command.
C8_AsClaimed ==
    (result.op = "Query" /\ \E p \in PathsOnSurface : mem[p].levelCrossing) =>
        (result.status = Disallowed /\ result.msg = STR_REMOVE_LEVEL_CROSSING_FIRST)

\* An earlier check of Query's chain rejects command c
EarlierCheckRejects(c) ==
    \/ ForbidLandscape
    \/ CheckParameters(c) # STR_NONE
    \/ SCREEN_FLAGS_SCENARIO_EDITOR \notin gScreenFlags /\ ~gCheatsSandboxMode /\ ~inPark
    \/ ~gCheatsDisableClearanceChecks /\ ForbidTrees /\ TreeOverlaps(c)
    \/ ~gCheatsDisableSupportLimits /\ CheckRideSupports(mem, c) # STR_NONE

\* C8: when the first path of the stack at the surface's base height is a
\* level crossing, Query returns Disallowed for every command, and with the
\* level-crossing reason unless an earlier check of the chain rejects.
C8_LevelCrossingGuard ==
    (/\ result.op = "Query"
     /\ PathsOnSurface # {}
     /\ \E p \in PathsOnSurface :
            mem[p].levelCrossing /\ \A o \in PathsOnSurface : p <= o) =>
        /\ result.status = Disallowed
        /\ ~EarlierCheckRejects(result.c) => result.msg = STR_REMOVE_LEVEL_CROSSING_FIRST

\* Query rejected a command for the level crossing on the cell
C8_Witness ==
    /\ result.op = "Query"
    /\ result.status = Disallowed
    /\ result.msg = STR_REMOVE_LEVEL_CROSSING_FIRST
    /\ \E p \in PathsOnSurface : mem[p].levelCrossing

\* C9: a call of Query or Execute that returns anything but Ok leaves the
\* element memory and the litter of the cell as they were.
C9_FailuresDoNotMutate ==
    [][(Idle /\ result'.op \in {"Query", "Execute"} /\ result'.status # Ok) =>
          (mem' = mem /\ litter' = litter)]_vars

\* C10: Execute on a cell with a surface element, whether or not Query would
\* accept the command, sets the surface's base and clearance height to the
\* target height and its slope to the target style, and returns Ok with the
\* cost computed from the state it ran on.
C10_ExecuteDoesNotRevalidate ==
    [][(/\ Idle
        /\ result'.op = "Execute"
        /\ map_get_surface_element_at(mem, result'.c.coords) # nullptr) =>
          LET c == result'.c
              old == map_get_surface_element_at(mem, c.coords)
              new == map_get_surface_element_at(mem', c.coords)
          IN  /\ new # nullptr
              /\ mem'[new].base_height = c.height
              /\ mem'[new].clearance_height = c.height
              /\ mem'[new].Slope = c.style
              /\ result'.status = Ok
              /\ result'.cost =
                     (IF gCheatsDisableClearanceChecks THEN 0
                      ELSE SumPrices(mem, Qualifying(mem, c.height)))
                     + GetSurfaceHeightChangeCost(mem[old], c)
      ]_vars

\* Execute returned Ok for a command that had an Ok Query and that Query
\* would have rejected when Execute ran
C10_Witness ==
    /\ result.op = "Execute"
    /\ result.stale
    /\ result.status = Ok
    /\ \E p \in Live(mem) :
           /\ mem[p].type = TILE_ELEMENT_TYPE_SURFACE
           /\ mem[p].base_height = result.c.height

====
